---- MODULE Spec2Model ----
(***************************************************************************)
(* The "28" card game of sree-bs/27-card-game: the rule functions of the   *)
(* game-logic module and the handlers of the Game component, as one state  *)
(* machine over the shared room record (gameData).                         *)
(*                                                                         *)
(* Conventions of the model                                                *)
(*  - A player's id is its rank among the keys of players, 0..3.  The game   *)
(*    starts from a lobby joined one player after the other, where the      *)
(*    player's id is also its position; the lobby itself is SpecLobby.      *)
(*  - A hand is the set of its cards: the code only filters and searches    *)
(*    hands, so their order (sortCards) decides nothing.                    *)
(*  - The room record is read back as it was written; a field written null  *)
(*    is null.                                                              *)
(*  - A handler that returns early (setError, or a thrown TypeError) leaves *)
(*    the room record untouched: it is a step that is not taken.  Each      *)
(*    handler's acceptance condition is an operator of its own              *)
(*    (playCardAccepts, askForTrumpAccepts, ...), so that "is rejected" is  *)
(*    a statement about a state.                                            *)
(*  - The render functions decide which handler a player can invoke         *)
(*    (buttons shown, cards clickable): these are the ...Offered operators, *)
(*    conjoined to the handlers in Next.                                    *)
(*  - gameState is the screen each client shows: the listener sets it from  *)
(*    the phase of every write, and has no case for phase lobby.            *)
(*  - Date.now() - trickCompletedAt is kept as the class of the elapsed     *)
(*    time: 0 for less than 5000 ms, 1 for 5000 ms or more.  The timer of   *)
(*    setTimeout(..., 10000) can fire only in class 1.                      *)
(***************************************************************************)
EXTENDS Integers, Sequences, FiniteSets, TLC

\* ------------------------------------------------------------------ bounds
\* Number of decisions per run that may differ from the default line of play
\* (see DefaultBid, lowestCard, DefaultCard): non-default bids, trump cards
\* and cards, every ask-for-trump, every play during the display window.  A
\* later round of the same run has one decision fewer for each round before it.
MaxChoices == 1
\* Number of those decisions that may be spent while bidding: a bidding that
\* departed from the default line more than MaxChoices times is played out along
\* the default line.
MaxBidChoices == 3
\* Number of permutations shuffleDeck may return.
NumShuffles == 2
\* Number of rounds started per run.
MaxRounds == 2
\* Ranks of the cards from which the tricks given to getTrickWinner alone are
\* drawn (the first MaxTrickRanks of TrickRanks, in every suit).
MaxTrickRanks == 4
\* Outcomes of shuffleDeck that are dealt when the deal alone is examined.
MaxDeals == 12
\* Number of amounts, from MIN_BID upwards, that are submitted when the bidding
\* alone is examined (16: every amount of 14..28 and one above).
MaxBidAmounts == 16
\* Passes in a row that are followed while nobody has bid (passCount has no
\* upper limit then).
MaxOpeningPasses == 9

\* ------------------------------------------------------------- null values
null == -1
PASS == 0
NoCard == [suit |-> "none", rank |-> "none"]

\* ------------------------------------------------------- gameLogic: cards
SUITS == <<"hearts", "diamonds", "clubs", "spades">>
RANKS == <<"7", "8", "9", "10", "J", "Q", "K", "A">>

CARD_VALUES(rank) ==
  CASE rank = "J" -> 3
    [] rank = "9" -> 2
    [] rank = "A" -> 1
    [] rank = "10" -> 1
    [] OTHER -> 0

\* Variant of CARD_POINTS in which the table has no entry for '10'.
CARD_POINTS_NoTen(rank) ==
  CASE rank = "J" -> 3
    [] rank = "9" -> 2
    [] rank = "A" -> 1
    [] OTHER -> 0

CARD_POINTS(rank) ==
  CASE rank = "J" -> 3
    [] rank = "9" -> 2
    [] rank = "A" -> 1
    [] rank = "10" -> 1
    [] OTHER -> 0

createDeck ==
  [i \in 1..(Len(SUITS) * Len(RANKS)) |->
     [suit |-> SUITS[((i - 1) \div Len(RANKS)) + 1],
      rank |-> RANKS[((i - 1) % Len(RANKS)) + 1]]]

Deck == {createDeck[i] : i \in DOMAIN createDeck}

\* Position of a card in createDeck's order.
cardIndex(card) ==
  LET s == CHOOSE i \in DOMAIN SUITS : SUITS[i] = card.suit
      r == CHOOSE i \in DOMAIN RANKS : RANKS[i] = card.rank
  IN (s - 1) * Len(RANKS) + r

\* The permutations the random source of shuffleDeck yields here, as positions
\* in the unshuffled deck: two are written out, the others are
\* i |-> a*i + b (mod 32) with a odd.
Shuffles ==
  << << 7, 12, 15, 30,   2,  3,  9, 17,  11, 13, 19, 20,   1, 10, 14, 23,
        8, 16, 31, 32,   4, 18, 25, 26,  21, 22, 27, 28,   5,  6, 24, 29>>,
     <<10, 11, 19, 20,  17, 18, 25, 26,   1, 13, 14, 22,   5,  6, 29, 30,
       12, 21, 27, 28,   2,  3,  4,  9,  15, 16, 23, 24,   7,  8, 31, 32>> >>

shuffleDeck(deck, k) ==
  [i \in DOMAIN deck |->
     IF k <= Len(Shuffles) THEN deck[Shuffles[k][i]]
     ELSE deck[(((2 * k - 1) * (i - 1) + 5 * k) % Len(deck)) + 1]]

getCardPoints(card) == CARD_POINTS(card.rank)

\* Variant of playValue that ranks a trump-suit card as getCardValue does
\* (base 100).
playValueAsGetCardValue(card, leadSuit, trumpCard) ==
  LET trumpSuit == IF trumpCard # NoCard THEN trumpCard.suit ELSE "none"
  IN IF trumpSuit # "none" /\ card.suit = trumpSuit THEN 100 + CARD_VALUES(card.rank)
     ELSE IF card.suit = leadSuit THEN 100 + CARD_VALUES(card.rank)
     ELSE 0

\* The ranked value getTrickWinner gives one play.
playValue(card, leadSuit, trumpCard) ==
  LET trumpSuit == IF trumpCard # NoCard THEN trumpCard.suit ELSE "none"
  IN IF trumpSuit # "none" /\ card.suit = trumpSuit THEN 1000 + CARD_VALUES(card.rank)
     ELSE IF card.suit = leadSuit THEN 100 + CARD_VALUES(card.rank)
     ELSE 0

RECURSIVE trickScan(_, _, _, _, _, _)
trickScan(trick, leadSuit, trumpCard, index, winningIndex, highestValue) ==
  IF index > Len(trick) THEN winningIndex
  ELSE LET value == playValue(trick[index].card, leadSuit, trumpCard)
       IN IF value > highestValue
            THEN trickScan(trick, leadSuit, trumpCard, index + 1, index, value)
            ELSE trickScan(trick, leadSuit, trumpCard, index + 1, winningIndex, highestValue)

\* Index (from 1) of the winning play.
getTrickWinner(trick, leadSuit, trumpCard) ==
  trickScan(trick, leadSuit, trumpCard, 1, 1, -1)

RECURSIVE trickPointsOf(_)
trickPointsOf(trick) ==
  IF trick = <<>> THEN 0
  ELSE getCardPoints(Head(trick).card) + trickPointsOf(Tail(trick))

RECURSIVE getTotalPoints(_)
getTotalPoints(ts) ==
  IF ts = <<>> THEN 0
  ELSE trickPointsOf(Head(ts)) + getTotalPoints(Tail(ts))

\* Variant of canPlayCard in which the bid winner's hidden trump card is tested
\* before the follow-suit rule and let through.
canPlayCardTrumpCardFirst(card, hand, trick, trumpCard, trumpRevealed, isBidWinner) ==
  IF Len(trick) = 0
    THEN IF /\ isBidWinner /\ trumpCard # NoCard /\ card.suit = trumpCard.suit
            /\ ~trumpRevealed
            /\ \E c \in hand : c.suit # trumpCard.suit
           THEN FALSE
         ELSE IF isBidWinner /\ trumpCard # NoCard /\ ~trumpRevealed /\ card = trumpCard
           THEN Cardinality({c \in hand : c.suit = trumpCard.suit}) = 1
         ELSE TRUE
    ELSE LET leadSuit == trick[1].card.suit
             hasSuit == \E c \in hand : c.suit = leadSuit
         IN IF isBidWinner /\ trumpCard # NoCard /\ ~trumpRevealed /\ card = trumpCard
              THEN TRUE
            ELSE IF hasSuit /\ card.suit # leadSuit THEN FALSE
            ELSE TRUE

\* canPlayCard of the unnamed game-logic source (the revision that also exports
\* canPlayerBid, which the Game component imports): the rules in force.
canPlayCard(card, hand, trick, trumpCard, trumpRevealed, isBidWinner) ==
  IF Len(trick) = 0
    THEN IF /\ isBidWinner /\ trumpCard # NoCard /\ card.suit = trumpCard.suit
            /\ ~trumpRevealed
            /\ \E c \in hand : c.suit # trumpCard.suit
           THEN FALSE
         ELSE IF isBidWinner /\ trumpCard # NoCard /\ ~trumpRevealed /\ card = trumpCard
           THEN Cardinality({c \in hand : c.suit = trumpCard.suit}) = 1
         ELSE TRUE
    ELSE LET leadSuit == trick[1].card.suit
             hasSuit == \E c \in hand : c.suit = leadSuit
         IN IF hasSuit /\ card.suit # leadSuit THEN FALSE
            ELSE IF isBidWinner /\ trumpCard # NoCard /\ ~trumpRevealed /\ card = trumpCard
              THEN ~hasSuit
            ELSE TRUE

\* canPlayCard of src/gameLogic.js, the earlier revision: the same follow-suit
\* rule, but a lead restricted only for the designated trump card itself.
canPlayCardGameLogic(card, hand, trick, trumpCard, trumpRevealed, isBidWinner) ==
  IF Len(trick) = 0
    THEN IF isBidWinner /\ trumpCard # NoCard /\ ~trumpRevealed /\ card = trumpCard
           THEN Cardinality({c \in hand : c.suit = trumpCard.suit}) = 1
           ELSE TRUE
    ELSE LET leadSuit == trick[1].card.suit
             hasSuit == \E c \in hand : c.suit = leadSuit
         IN IF hasSuit /\ card.suit # leadSuit THEN FALSE
            ELSE IF isBidWinner /\ trumpCard # NoCard /\ ~trumpRevealed /\ card = trumpCard
              THEN ~hasSuit
            ELSE TRUE

MIN_BID == 14
MAX_BID == 28

\* Variant of calculateBidValidity comparing with "<" instead of "<=".
calculateBidValidityEqualAllowed(bid, currentHighestBid) ==
  IF bid < MIN_BID \/ bid > MAX_BID THEN FALSE
  ELSE IF currentHighestBid # 0 /\ bid < currentHighestBid THEN FALSE
  ELSE TRUE

\* Variant of calculateBidValidity without the comparison with the highest bid.
calculateBidValidityRangeOnly(bid, currentHighestBid) ==
  IF bid < MIN_BID \/ bid > MAX_BID THEN FALSE
  ELSE TRUE

\* currentHighestBid is 0 (startGame) or null (resetGame) before the first bid:
\* both are falsy, both are 0 here.
calculateBidValidity(bid, currentHighestBid) ==
  IF bid < MIN_BID \/ bid > MAX_BID THEN FALSE
  ELSE IF currentHighestBid # 0 /\ bid <= currentHighestBid THEN FALSE
  ELSE TRUE

\* bidLog is Object.entries(gameData.bids): one entry per player who has bid,
\* in the order of the players' first bids.
canPlayerBid(playerId, bidLog, winner, highest) ==
  IF winner = null THEN TRUE
  ELSE LET currentPlayerTeam == playerId % 2
           bidWinnerTeam == winner % 2
           hits == {i \in DOMAIN bidLog :
                      bidLog[i].playerId = winner /\ bidLog[i].bid = highest}
           bidWinnerBidIndex ==
             IF hits = {} THEN 0 ELSE CHOOSE i \in hits : \A j \in hits : j <= i
       IN IF currentPlayerTeam = bidWinnerTeam
            THEN \E i \in DOMAIN bidLog :
                    /\ i > bidWinnerBidIndex
                    /\ bidLog[i].playerId % 2 # bidWinnerTeam
                    /\ bidLog[i].bid # PASS
            ELSE TRUE

\* Variant of canAskForTrump without the test of the asker's hand.
canAskForTrumpAnyHand(hand, trick, trumpCard, trumpRevealed) ==
  IF trumpRevealed \/ trumpCard = NoCard THEN FALSE
  ELSE Len(trick) # 0

canAskForTrump(hand, trick, trumpCard, trumpRevealed) ==
  IF trumpRevealed \/ trumpCard = NoCard THEN FALSE
  ELSE IF Len(trick) = 0 THEN FALSE
  ELSE ~(\E c \in hand : c.suit = trick[1].card.suit)

playerHasTrumpSuit(hand, trumpCard) ==
  IF trumpCard = NoCard THEN FALSE
  ELSE \E c \in hand : c.suit = trumpCard.suit

\* ------------------------------------------------------------------- state
VARIABLES
  phase,               \* "lobby", "bidding", "trumpSelection", "playing", "gameOver"
  hands,               \* player -> set of cards; every hand {} when hands is null
  remainingCards,      \* player -> second deal of 4; every one {} when null
  currentBidder, highestBid, bidWinner, bids, passCount,
  trumpCard, trumpRevealed, trumpAskedBy, trumpPlayedAfterAsk,
  currentTrick,        \* sequence of plays [playerId, card, position]
  tricks, team1Tricks, team2Tricks,
  currentPlayer, nextPlayer,
  team1Score, team2Score, bidMade,
  trickCompletedAt,    \* null, or the class of Date.now() - trickCompletedAt
  dealerPosition,
  timers,              \* pending setTimeout callbacks of playCard
  askPending,          \* history: the asker who has not played since asking
  bidSeq,              \* history: the accepted bids of the round, in submission order
  gameState,           \* player -> the screen that player's client shows
  players,             \* player -> position in gameData.players; null when absent
  playerCount,         \* player -> the count read by its joinRoom in flight, or null
  choices,             \* non-default decisions taken so far
  rounds               \* rounds started so far

vars == <<phase, hands, remainingCards, currentBidder, highestBid, bidWinner, bids,
          passCount, trumpCard, trumpRevealed, trumpAskedBy, trumpPlayedAfterAsk,
          currentTrick, tricks, team1Tricks, team2Tricks, currentPlayer, nextPlayer,
          team1Score, team2Score, bidMade, trickCompletedAt, dealerPosition, timers,
          askPending, bidSeq, gameState, players, playerCount, choices, rounds>>

\* What the handlers write (everything but the exploration counters).
gameData == <<phase, hands, remainingCards, currentBidder, highestBid, bidWinner, bids,
              passCount, trumpCard, trumpRevealed, trumpAskedBy, trumpPlayedAfterAsk,
              currentTrick, tricks, team1Tricks, team2Tricks, currentPlayer, nextPlayer,
              team1Score, team2Score, bidMade, trickCompletedAt, dealerPosition>>

Players == 0..3
NoHands == [p \in Players |-> {}]

\* createRoom and three joinRoom calls have seated four players; no round yet.
Init ==
  /\ phase = "lobby"
  /\ hands = NoHands
  /\ remainingCards = NoHands
  /\ currentBidder = null
  /\ highestBid = 0
  /\ bidWinner = null
  /\ bids = <<>>
  /\ passCount = 0
  /\ trumpCard = NoCard
  /\ trumpRevealed = FALSE
  /\ trumpAskedBy = null
  /\ trumpPlayedAfterAsk = FALSE
  /\ currentTrick = <<>>
  /\ tricks = <<>>
  /\ team1Tricks = <<>>
  /\ team2Tricks = <<>>
  /\ currentPlayer = null
  /\ nextPlayer = null
  /\ team1Score = 0
  /\ team2Score = 0
  /\ bidMade = FALSE
  /\ trickCompletedAt = null
  /\ dealerPosition = 0
  /\ timers = {}
  /\ askPending = null
  /\ bidSeq = <<>>
  /\ gameState = [p \in Players |-> "lobby"]
  /\ players = [p \in Players |-> p]
  /\ playerCount = [p \in Players |-> null]
  /\ choices = 0
  /\ rounds = 0


\* ------------------------------------------------------- default line of play
\* The decisions that cost no choice: the bidder bids MIN_BID while nobody has
\* bid and passes afterwards, the bid winner tags the first card of the initial
\* hand, and a player plays the first card of the hand that playCard accepts.
lowestCard(cards) ==
  createDeck[CHOOSE i \in DOMAIN createDeck :
               createDeck[i] \in cards /\ \A j \in 1..(i - 1) : createDeck[j] \notin cards]

\* Every round after the first has one decision fewer to spend.
spend(free) ==
  IF free THEN choices' = choices
  ELSE choices + (rounds - 1) < MaxChoices /\ choices' = choices + 1

spendBid(free) ==
  IF free THEN choices' = choices
  ELSE choices + (rounds - 1) < MaxBidChoices /\ choices' = choices + 1

\* ------------------------------------------------- Game: the onValue listener
\* The state mapping of the listener: the screen a client shows after a write
\* of the room record.  Phase lobby is mapped to no screen, so a client keeps
\* the screen it has.
onValue(state, newPhase) ==
  CASE newPhase \in {"bidding", "trumpSelection"} -> "bidding"
    [] newPhase = "playing" -> "playing"
    [] newPhase = "gameOver" -> "gameOver"
    [] OTHER -> state

\* Every client's listener runs on the record just written.
listeners == gameState' = [p \in Players |-> onValue(gameState[p], phase')]

\* ------------------------------------------------------------ Game: startGame
\* The keys of gameData.players.
seated == {p \in Players : players[p] # null}

\* isHost of renderLobby: the first key of players.
isHost(playerId) == playerId \in seated /\ \A p \in seated : playerId <= p

\* Offered by renderLobby, the screen of gameState lobby, to the host (with 4
\* players, see startGameAccepts).
startGameOffered(playerId) == gameState[playerId] = "lobby" /\ isHost(playerId)

\* startGame's only test: Object.keys(gameData.players).length !== 4.
startGameAccepts == Cardinality(seated) = 4

\* Variant of startGame whose second deal starts at deck.slice(12 + i * 4).
startGameOverlappingDeals(k) ==
  LET deck == shuffleDeck(createDeck, k)
      initialHands == [p \in Players |-> {deck[i] : i \in (p * 4 + 1)..(p * 4 + 4)}]
      remaining == [p \in Players |-> {deck[i] : i \in (12 + p * 4 + 1)..(16 + p * 4)}]
  IN /\ startGameAccepts
     /\ phase' = "bidding"
     /\ hands' = initialHands
     /\ remainingCards' = remaining
     /\ currentBidder' = (dealerPosition + 1) % 4
     /\ highestBid' = 0
     /\ bidWinner' = null
     /\ bids' = <<>>
     /\ passCount' = 0
     /\ trumpCard' = NoCard
     /\ trumpRevealed' = FALSE
     /\ currentTrick' = <<>>
     /\ tricks' = <<>>
     /\ currentPlayer' = null
     /\ team1Score' = 0
     /\ team2Score' = 0
     /\ team1Tricks' = <<>>
     /\ team2Tricks' = <<>>
     /\ trumpAskedBy' = null
     /\ trickCompletedAt' = null
     /\ UNCHANGED <<trumpPlayedAfterAsk, nextPlayer, bidMade, dealerPosition, timers>>

startGame(k) ==
  LET deck == shuffleDeck(createDeck, k)
      initialHands == [p \in Players |-> {deck[i] : i \in (p * 4 + 1)..(p * 4 + 4)}]
      remaining == [p \in Players |-> {deck[i] : i \in (16 + p * 4 + 1)..(20 + p * 4)}]
  IN /\ startGameAccepts
     /\ phase' = "bidding"
     /\ hands' = initialHands
     /\ remainingCards' = remaining
     /\ currentBidder' = (dealerPosition + 1) % 4
     /\ highestBid' = 0
     /\ bidWinner' = null
     /\ bids' = <<>>
     /\ passCount' = 0
     /\ trumpCard' = NoCard
     /\ trumpRevealed' = FALSE
     /\ currentTrick' = <<>>
     /\ tricks' = <<>>
     /\ currentPlayer' = null
     /\ team1Score' = 0
     /\ team2Score' = 0
     /\ team1Tricks' = <<>>
     /\ team2Tricks' = <<>>
     /\ trumpAskedBy' = null
     /\ trickCompletedAt' = null
     /\ UNCHANGED <<trumpPlayedAfterAsk, nextPlayer, bidMade, dealerPosition, timers>>

\* ------------------------------------------------------------- Game: placeBid
\* Variant of setBid that keeps a player's earlier entry.
setBidKeepFirst(bidLog, playerId, bid) ==
  IF \E i \in DOMAIN bidLog : bidLog[i].playerId = playerId
    THEN bidLog
    ELSE Append(bidLog, [playerId |-> playerId, bid |-> bid])

\* `bids/${playerId}`: bid -- a player's entry is replaced where it stands, a
\* first bid is appended.
setBid(bidLog, playerId, bid) ==
  IF \E i \in DOMAIN bidLog : bidLog[i].playerId = playerId
    THEN [i \in DOMAIN bidLog |->
            IF bidLog[i].playerId = playerId
              THEN [playerId |-> playerId, bid |-> bid] ELSE bidLog[i]]
    ELSE Append(bidLog, [playerId |-> playerId, bid |-> bid])

placeBidAccepts(playerId, bid) ==
  /\ playerId = currentBidder
  /\ bid # PASS => canPlayerBid(playerId, bids, bidWinner, highestBid)
  /\ bid # PASS => calculateBidValidity(bid, highestBid)

\* renderBidding shows the bid controls to the current bidder while the phase
\* is bidding (the trump selection replaces them in phase trumpSelection).
placeBidOffered(playerId) == phase = "bidding" /\ playerId = currentBidder

DefaultBid == IF bidWinner = null THEN MIN_BID ELSE PASS

\* The amounts a bidder submits here.
BidInputs == {PASS, MIN_BID, MIN_BID + 1, MIN_BID + 2, MAX_BID}

\* Variant of placeBid whose numeric branch does not write passCount: 0.
placeBidKeepsPassCount(playerId, bid) ==
  /\ placeBidAccepts(playerId, bid)
  /\ bids' = setBid(bids, playerId, bid)
  /\ IF bid = PASS
       THEN /\ passCount' = passCount + 1
            /\ IF passCount + 1 = 3 /\ bidWinner # null
                 THEN phase' = "trumpSelection" /\ UNCHANGED currentBidder
                 ELSE currentBidder' = (currentBidder + 1) % 4 /\ UNCHANGED phase
            /\ UNCHANGED <<highestBid, bidWinner>>
       ELSE /\ highestBid' = bid
            /\ bidWinner' = playerId
            /\ currentBidder' = (currentBidder + 1) % 4
            /\ UNCHANGED <<phase, passCount>>
  /\ UNCHANGED <<hands, remainingCards, trumpCard, trumpRevealed, trumpAskedBy,
                 trumpPlayedAfterAsk, currentTrick, tricks, team1Tricks, team2Tricks,
                 currentPlayer, nextPlayer, team1Score, team2Score, bidMade,
                 trickCompletedAt, dealerPosition, timers>>

\* Variant of placeBid whose third pass ends the bidding when there is no bid
\* winner (the test of gameData.bidWinner negated).
placeBidThirdPassWithoutWinner(playerId, bid) ==
  /\ placeBidAccepts(playerId, bid)
  /\ bids' = setBid(bids, playerId, bid)
  /\ IF bid = PASS
       THEN /\ passCount' = passCount + 1
            /\ IF passCount + 1 = 3 /\ bidWinner = null
                 THEN phase' = "trumpSelection" /\ UNCHANGED currentBidder
                 ELSE currentBidder' = (currentBidder + 1) % 4 /\ UNCHANGED phase
            /\ UNCHANGED <<highestBid, bidWinner>>
       ELSE /\ highestBid' = bid
            /\ bidWinner' = playerId
            /\ passCount' = 0
            /\ currentBidder' = (currentBidder + 1) % 4
            /\ UNCHANGED phase
  /\ UNCHANGED <<hands, remainingCards, trumpCard, trumpRevealed, trumpAskedBy,
                 trumpPlayedAfterAsk, currentTrick, tricks, team1Tricks, team2Tricks,
                 currentPlayer, nextPlayer, team1Score, team2Score, bidMade,
                 trickCompletedAt, dealerPosition, timers>>

placeBid(playerId, bid) ==
  /\ placeBidAccepts(playerId, bid)
  /\ bids' = setBid(bids, playerId, bid)
  /\ IF bid = PASS
       THEN /\ passCount' = passCount + 1
            /\ IF passCount + 1 = 3 /\ bidWinner # null
                 THEN phase' = "trumpSelection" /\ UNCHANGED currentBidder
                 ELSE currentBidder' = (currentBidder + 1) % 4 /\ UNCHANGED phase
            /\ UNCHANGED <<highestBid, bidWinner>>
       ELSE /\ highestBid' = bid
            /\ bidWinner' = playerId
            /\ passCount' = 0
            /\ currentBidder' = (currentBidder + 1) % 4
            /\ UNCHANGED phase
  /\ UNCHANGED <<hands, remainingCards, trumpCard, trumpRevealed, trumpAskedBy,
                 trumpPlayedAfterAsk, currentTrick, tricks, team1Tricks, team2Tricks,
                 currentPlayer, nextPlayer, team1Score, team2Score, bidMade,
                 trickCompletedAt, dealerPosition, timers>>

\* ------------------------------------------------------ Game: selectTrumpCard
\* Variant of selectTrumpCardAccepts reading gameData.remainingCards?.[pid]: it
\* no longer throws once the second deal is merged.
selectTrumpCardAcceptsMerged(playerId) == bidWinner = playerId

\* gameData.remainingCards[pid] throws once remainingCards is null.
selectTrumpCardAccepts(playerId) ==
  /\ bidWinner = playerId
  /\ remainingCards # NoHands

\* Variant of selectTrumpCardOffered that lists the cards whatever the phase.
selectTrumpCardOfferedAnyPhase(playerId, card) ==
  /\ bidWinner = playerId
  /\ card \in hands[playerId]

\* renderBidding lists the bid winner's initial hand in phase trumpSelection.
selectTrumpCardOffered(playerId, card) ==
  /\ phase = "trumpSelection"
  /\ bidWinner = playerId
  /\ card \in hands[playerId]

selectTrumpCard(playerId, card) ==
  /\ selectTrumpCardAccepts(playerId)
  /\ trumpCard' = card
  /\ trumpRevealed' = FALSE
  /\ phase' = "playing"
  /\ currentPlayer' = (dealerPosition + 1) % 4
  /\ currentTrick' = <<>>
  /\ hands' = [p \in Players |-> hands[p] \cup remainingCards[p]]
  /\ remainingCards' = NoHands
  /\ UNCHANGED <<currentBidder, highestBid, bidWinner, bids, passCount, trumpAskedBy,
                 trumpPlayedAfterAsk, tricks, team1Tricks, team2Tricks, nextPlayer,
                 team1Score, team2Score, bidMade, trickCompletedAt, dealerPosition,
                 timers>>

\* ---------------------------------------------------------- Game: askForTrump
askForTrumpAccepts(playerId) ==
  canAskForTrump(hands[playerId], currentTrick, trumpCard, trumpRevealed)

\* trickDisplaying of renderPlaying.
trickDisplaying ==
  trickCompletedAt # null /\ trickCompletedAt < 1 /\ Len(currentTrick) = 4

\* renderPlaying shows the button when canAskTrump && !trickDisplaying.
askForTrumpOffered(playerId) ==
  /\ phase = "playing"
  /\ currentPlayer = playerId
  /\ canAskForTrump(hands[playerId], currentTrick, trumpCard, trumpRevealed)
  /\ ~trickDisplaying

askForTrump(playerId) ==
  /\ askForTrumpAccepts(playerId)
  /\ trumpAskedBy' = playerId
  /\ trumpRevealed' = TRUE
  /\ UNCHANGED <<phase, hands, remainingCards, currentBidder, highestBid, bidWinner,
                 bids, passCount, trumpCard, trumpPlayedAfterAsk, currentTrick, tricks,
                 team1Tricks, team2Tricks, currentPlayer, nextPlayer, team1Score,
                 team2Score, bidMade, trickCompletedAt, dealerPosition, timers>>


\* ------------------------------------------------------------- Game: playCard
\* Variant of mustPlayTrumpSuit that reads trumpPlayedAfterAsk without the "!".
mustPlayTrumpSuitFlagInverted(playerId) ==
  /\ trumpAskedBy = playerId
  /\ trumpPlayedAfterAsk
  /\ playerHasTrumpSuit(hands[playerId], trumpCard)

\* The asker's obligation: "You must play a trump suit card since you asked".
mustPlayTrumpSuit(playerId) ==
  /\ trumpAskedBy = playerId
  /\ ~trumpPlayedAfterAsk
  /\ playerHasTrumpSuit(hands[playerId], trumpCard)

\* Variant of playCardAccepts without the "Not your turn" test.
playCardAcceptsAnyTurn(playerId, card) ==
  /\ ~(trickCompletedAt # null /\ trickCompletedAt < 1)
  /\ ~(mustPlayTrumpSuit(playerId) /\ card.suit # trumpCard.suit)
  /\ canPlayCard(card, hands[playerId], currentTrick, trumpCard, trumpRevealed,
                 bidWinner = playerId)

playCardAccepts(playerId, card) ==
  /\ playerId = currentPlayer
  /\ ~(trickCompletedAt # null /\ trickCompletedAt < 1)
  /\ ~(mustPlayTrumpSuit(playerId) /\ card.suit # trumpCard.suit)
  /\ canPlayCard(card, hands[playerId], currentTrick, trumpCard, trumpRevealed,
                 bidWinner = playerId)

\* renderPlaying: a card of the own hand is selected, and the play button is
\* shown when isMyTurn && selectedCard && !trickDisplaying.
playCardOffered(playerId, card) ==
  /\ phase = "playing"
  /\ currentPlayer = playerId
  /\ card \in hands[playerId]
  /\ ~trickDisplaying

DefaultCard(playerId) ==
  lowestCard({c \in hands[playerId] : playCardAccepts(playerId, c)})

\* Variant of playCard that ends the round with the seventh archived trick.
playCardGameOverAtSeven(playerId, card) ==
  LET newHand == hands[playerId] \ {card}
      newTrick == Append(currentTrick,
                         [playerId |-> playerId, card |-> card, position |-> playerId])
      playedTrumpAfterAsk ==
        trumpAskedBy = playerId /\ trumpCard # NoCard /\ card.suit = trumpCard.suit
      leadSuit == newTrick[1].card.suit
      winnerIndex == getTrickWinner(newTrick, leadSuit, trumpCard)
      winnerPosition == newTrick[winnerIndex].playerId
      trickPoints == trickPointsOf(newTrick)
      winningTeam == IF winnerPosition % 2 = 0 THEN "team1" ELSE "team2"
      allTricks == Append(tricks, newTrick)
      team1Points == getTotalPoints(team1Tricks)
      team2Points == getTotalPoints(team2Tricks)
      finalTeam1Points == IF winningTeam = "team1" THEN team1Points + trickPoints
                          ELSE team1Points
      finalTeam2Points == IF winningTeam = "team2" THEN team2Points + trickPoints
                          ELSE team2Points
      biddingTeamPoints == IF bidWinner % 2 = 0 THEN finalTeam1Points
                           ELSE finalTeam2Points
  IN /\ playCardAccepts(playerId, card)
     /\ hands' = [hands EXCEPT ![playerId] = newHand]
     /\ currentTrick' = newTrick
     /\ IF Len(newTrick) = 4
          THEN /\ tricks' = allTricks
               /\ team1Tricks' = IF winningTeam = "team1"
                                   THEN Append(team1Tricks, newTrick) ELSE team1Tricks
               /\ team2Tricks' = IF winningTeam = "team2"
                                   THEN Append(team2Tricks, newTrick) ELSE team2Tricks
               /\ trumpAskedBy' = null
               /\ trumpPlayedAfterAsk' = FALSE
               /\ nextPlayer' = winnerPosition
               /\ UNCHANGED currentPlayer
               /\ IF Len(allTricks) = 7
                    THEN /\ phase' = "gameOver"
                         /\ team1Score' = finalTeam1Points
                         /\ team2Score' = finalTeam2Points
                         /\ bidMade' = (biddingTeamPoints >= highestBid)
                         /\ trickCompletedAt' = null
                         /\ UNCHANGED timers
                    ELSE /\ trickCompletedAt' = 0
                         /\ timers' = timers \cup {[winnerPosition |-> winnerPosition,
                                                    due |-> FALSE]}
                         /\ UNCHANGED <<phase, team1Score, team2Score, bidMade>>
          ELSE /\ currentPlayer' = (currentPlayer + 1) % 4
               /\ trumpPlayedAfterAsk' =
                    (IF playedTrumpAfterAsk THEN TRUE ELSE trumpPlayedAfterAsk)
               /\ UNCHANGED <<tricks, team1Tricks, team2Tricks, trumpAskedBy, nextPlayer,
                              phase, team1Score, team2Score, bidMade, trickCompletedAt,
                              timers>>
     /\ UNCHANGED <<remainingCards, currentBidder, highestBid, bidWinner, bids, passCount,
                    trumpCard, trumpRevealed, dealerPosition>>

\* Variant of playCard that wants more points than the bid.
playCardBidMadeStrict(playerId, card) ==
  LET newHand == hands[playerId] \ {card}
      newTrick == Append(currentTrick,
                         [playerId |-> playerId, card |-> card, position |-> playerId])
      playedTrumpAfterAsk ==
        trumpAskedBy = playerId /\ trumpCard # NoCard /\ card.suit = trumpCard.suit
      leadSuit == newTrick[1].card.suit
      winnerIndex == getTrickWinner(newTrick, leadSuit, trumpCard)
      winnerPosition == newTrick[winnerIndex].playerId
      trickPoints == trickPointsOf(newTrick)
      winningTeam == IF winnerPosition % 2 = 0 THEN "team1" ELSE "team2"
      allTricks == Append(tricks, newTrick)
      team1Points == getTotalPoints(team1Tricks)
      team2Points == getTotalPoints(team2Tricks)
      finalTeam1Points == IF winningTeam = "team1" THEN team1Points + trickPoints
                          ELSE team1Points
      finalTeam2Points == IF winningTeam = "team2" THEN team2Points + trickPoints
                          ELSE team2Points
      biddingTeamPoints == IF bidWinner % 2 = 0 THEN finalTeam1Points
                           ELSE finalTeam2Points
  IN /\ playCardAccepts(playerId, card)
     /\ hands' = [hands EXCEPT ![playerId] = newHand]
     /\ currentTrick' = newTrick
     /\ IF Len(newTrick) = 4
          THEN /\ tricks' = allTricks
               /\ team1Tricks' = IF winningTeam = "team1"
                                   THEN Append(team1Tricks, newTrick) ELSE team1Tricks
               /\ team2Tricks' = IF winningTeam = "team2"
                                   THEN Append(team2Tricks, newTrick) ELSE team2Tricks
               /\ trumpAskedBy' = null
               /\ trumpPlayedAfterAsk' = FALSE
               /\ nextPlayer' = winnerPosition
               /\ UNCHANGED currentPlayer
               /\ IF Len(allTricks) = 8
                    THEN /\ phase' = "gameOver"
                         /\ team1Score' = finalTeam1Points
                         /\ team2Score' = finalTeam2Points
                         /\ bidMade' = (biddingTeamPoints > highestBid)
                         /\ trickCompletedAt' = null
                         /\ UNCHANGED timers
                    ELSE /\ trickCompletedAt' = 0
                         /\ timers' = timers \cup {[winnerPosition |-> winnerPosition,
                                                    due |-> FALSE]}
                         /\ UNCHANGED <<phase, team1Score, team2Score, bidMade>>
          ELSE /\ currentPlayer' = (currentPlayer + 1) % 4
               /\ trumpPlayedAfterAsk' =
                    (IF playedTrumpAfterAsk THEN TRUE ELSE trumpPlayedAfterAsk)
               /\ UNCHANGED <<tricks, team1Tricks, team2Tricks, trumpAskedBy, nextPlayer,
                              phase, team1Score, team2Score, bidMade, trickCompletedAt,
                              timers>>
     /\ UNCHANGED <<remainingCards, currentBidder, highestBid, bidWinner, bids, passCount,
                    trumpCard, trumpRevealed, dealerPosition>>

\* Variant of playCard that credits the trick to the team of the fourth player.
playCardCreditsLastPlayer(playerId, card) ==
  LET newHand == hands[playerId] \ {card}
      newTrick == Append(currentTrick,
                         [playerId |-> playerId, card |-> card, position |-> playerId])
      playedTrumpAfterAsk ==
        trumpAskedBy = playerId /\ trumpCard # NoCard /\ card.suit = trumpCard.suit
      leadSuit == newTrick[1].card.suit
      winnerIndex == getTrickWinner(newTrick, leadSuit, trumpCard)
      winnerPosition == newTrick[winnerIndex].playerId
      trickPoints == trickPointsOf(newTrick)
      winningTeam == IF playerId % 2 = 0 THEN "team1" ELSE "team2"
      allTricks == Append(tricks, newTrick)
      team1Points == getTotalPoints(team1Tricks)
      team2Points == getTotalPoints(team2Tricks)
      finalTeam1Points == IF winningTeam = "team1" THEN team1Points + trickPoints
                          ELSE team1Points
      finalTeam2Points == IF winningTeam = "team2" THEN team2Points + trickPoints
                          ELSE team2Points
      biddingTeamPoints == IF bidWinner % 2 = 0 THEN finalTeam1Points
                           ELSE finalTeam2Points
  IN /\ playCardAccepts(playerId, card)
     /\ hands' = [hands EXCEPT ![playerId] = newHand]
     /\ currentTrick' = newTrick
     /\ IF Len(newTrick) = 4
          THEN /\ tricks' = allTricks
               /\ team1Tricks' = IF winningTeam = "team1"
                                   THEN Append(team1Tricks, newTrick) ELSE team1Tricks
               /\ team2Tricks' = IF winningTeam = "team2"
                                   THEN Append(team2Tricks, newTrick) ELSE team2Tricks
               /\ trumpAskedBy' = null
               /\ trumpPlayedAfterAsk' = FALSE
               /\ nextPlayer' = winnerPosition
               /\ UNCHANGED currentPlayer
               /\ IF Len(allTricks) = 8
                    THEN /\ phase' = "gameOver"
                         /\ team1Score' = finalTeam1Points
                         /\ team2Score' = finalTeam2Points
                         /\ bidMade' = (biddingTeamPoints >= highestBid)
                         /\ trickCompletedAt' = null
                         /\ UNCHANGED timers
                    ELSE /\ trickCompletedAt' = 0
                         /\ timers' = timers \cup {[winnerPosition |-> winnerPosition,
                                                    due |-> FALSE]}
                         /\ UNCHANGED <<phase, team1Score, team2Score, bidMade>>
          ELSE /\ currentPlayer' = (currentPlayer + 1) % 4
               /\ trumpPlayedAfterAsk' =
                    (IF playedTrumpAfterAsk THEN TRUE ELSE trumpPlayedAfterAsk)
               /\ UNCHANGED <<tricks, team1Tricks, team2Tricks, trumpAskedBy, nextPlayer,
                              phase, team1Score, team2Score, bidMade, trickCompletedAt,
                              timers>>
     /\ UNCHANGED <<remainingCards, currentBidder, highestBid, bidWinner, bids, passCount,
                    trumpCard, trumpRevealed, dealerPosition>>

playCard(playerId, card) ==
  LET newHand == hands[playerId] \ {card}
      newTrick == Append(currentTrick,
                         [playerId |-> playerId, card |-> card, position |-> playerId])
      playedTrumpAfterAsk ==
        trumpAskedBy = playerId /\ trumpCard # NoCard /\ card.suit = trumpCard.suit
      leadSuit == newTrick[1].card.suit
      winnerIndex == getTrickWinner(newTrick, leadSuit, trumpCard)
      winnerPosition == newTrick[winnerIndex].playerId
      trickPoints == trickPointsOf(newTrick)
      winningTeam == IF winnerPosition % 2 = 0 THEN "team1" ELSE "team2"
      allTricks == Append(tricks, newTrick)
      team1Points == getTotalPoints(team1Tricks)
      team2Points == getTotalPoints(team2Tricks)
      finalTeam1Points == IF winningTeam = "team1" THEN team1Points + trickPoints
                          ELSE team1Points
      finalTeam2Points == IF winningTeam = "team2" THEN team2Points + trickPoints
                          ELSE team2Points
      biddingTeamPoints == IF bidWinner % 2 = 0 THEN finalTeam1Points
                           ELSE finalTeam2Points
  IN /\ playCardAccepts(playerId, card)
     /\ hands' = [hands EXCEPT ![playerId] = newHand]
     /\ currentTrick' = newTrick
     /\ IF Len(newTrick) = 4
          THEN /\ tricks' = allTricks
               /\ team1Tricks' = IF winningTeam = "team1"
                                   THEN Append(team1Tricks, newTrick) ELSE team1Tricks
               /\ team2Tricks' = IF winningTeam = "team2"
                                   THEN Append(team2Tricks, newTrick) ELSE team2Tricks
               /\ trumpAskedBy' = null
               /\ trumpPlayedAfterAsk' = FALSE
               /\ nextPlayer' = winnerPosition
               /\ UNCHANGED currentPlayer
               /\ IF Len(allTricks) = 8
                    THEN /\ phase' = "gameOver"
                         /\ team1Score' = finalTeam1Points
                         /\ team2Score' = finalTeam2Points
                         /\ bidMade' = (biddingTeamPoints >= highestBid)
                         /\ trickCompletedAt' = null
                         /\ UNCHANGED timers
                    ELSE /\ trickCompletedAt' = 0
                         /\ timers' = timers \cup {[winnerPosition |-> winnerPosition,
                                                    due |-> FALSE]}
                         /\ UNCHANGED <<phase, team1Score, team2Score, bidMade>>
          ELSE /\ currentPlayer' = (currentPlayer + 1) % 4
               /\ trumpPlayedAfterAsk' =
                    (IF playedTrumpAfterAsk THEN TRUE ELSE trumpPlayedAfterAsk)
               /\ UNCHANGED <<tricks, team1Tricks, team2Tricks, trumpAskedBy, nextPlayer,
                              phase, team1Score, team2Score, bidMade, trickCompletedAt,
                              timers>>
     /\ UNCHANGED <<remainingCards, currentBidder, highestBid, bidWinner, bids, passCount,
                    trumpCard, trumpRevealed, dealerPosition>>

\* Variant of the callback that also writes trumpRevealed: false.
clearTrickHidingTrump(timer) ==
  /\ timer \in timers
  /\ timer.due
  /\ timers' = timers \ {timer}
  /\ currentTrick' = <<>>
  /\ currentPlayer' = timer.winnerPosition
  /\ trickCompletedAt' = null
  /\ trumpRevealed' = FALSE
  /\ UNCHANGED <<phase, hands, remainingCards, currentBidder, highestBid, bidWinner,
                 bids, passCount, trumpCard, trumpAskedBy, trumpPlayedAfterAsk, tricks,
                 team1Tricks, team2Tricks, nextPlayer, team1Score, team2Score, bidMade,
                 dealerPosition>>

\* Variant of the callback that hands the turn to the next seat.
clearTrickNextSeat(timer) ==
  /\ timer \in timers
  /\ timer.due
  /\ timers' = timers \ {timer}
  /\ currentTrick' = <<>>
  /\ currentPlayer' = (currentPlayer + 1) % 4
  /\ trickCompletedAt' = null
  /\ UNCHANGED <<phase, hands, remainingCards, currentBidder, highestBid, bidWinner,
                 bids, passCount, trumpCard, trumpRevealed, trumpAskedBy,
                 trumpPlayedAfterAsk, tricks, team1Tricks, team2Tricks, nextPlayer,
                 team1Score, team2Score, bidMade, dealerPosition>>

\* The callback of setTimeout(..., 10000): it fires once its 10 s have passed,
\* whatever the room record holds by then.
clearTrick(timer) ==
  /\ timer \in timers
  /\ timer.due
  /\ timers' = timers \ {timer}
  /\ currentTrick' = <<>>
  /\ currentPlayer' = timer.winnerPosition
  /\ trickCompletedAt' = null
  /\ UNCHANGED <<phase, hands, remainingCards, currentBidder, highestBid, bidWinner,
                 bids, passCount, trumpCard, trumpRevealed, trumpAskedBy,
                 trumpPlayedAfterAsk, tricks, team1Tricks, team2Tricks, nextPlayer,
                 team1Score, team2Score, bidMade, dealerPosition>>

\* Time passes: 5000 ms and more since the trick completed; pending timers
\* become due.
Tick ==
  /\ (trickCompletedAt = 0 \/ \E t \in timers : ~t.due)
  /\ trickCompletedAt' = IF trickCompletedAt = 0 THEN 1 ELSE trickCompletedAt
  /\ timers' = {[t EXCEPT !.due = TRUE] : t \in timers}
  /\ UNCHANGED <<phase, hands, remainingCards, currentBidder, highestBid, bidWinner,
                 bids, passCount, trumpCard, trumpRevealed, trumpAskedBy,
                 trumpPlayedAfterAsk, currentTrick, tricks, team1Tricks, team2Tricks,
                 currentPlayer, nextPlayer, team1Score, team2Score, bidMade,
                 dealerPosition>>

\* ------------------------------------------------------------ Game: resetGame
\* "Play Again" of renderGameOver, the screen of gameState gameOver: every
\* client shows it from phase gameOver on, until it resets itself or a new
\* round starts.
resetGameOffered(playerId) == gameState[playerId] = "gameOver"

resetGame(playerId) ==
  /\ phase' = "lobby"
  /\ hands' = NoHands
  /\ remainingCards' = NoHands
  /\ currentBidder' = null
  /\ highestBid' = 0
  /\ bidWinner' = null
  /\ bids' = <<>>
  /\ passCount' = 0
  /\ trumpCard' = NoCard
  /\ trumpRevealed' = FALSE
  /\ currentTrick' = <<>>
  /\ tricks' = <<>>
  /\ currentPlayer' = null
  /\ team1Score' = 0
  /\ team2Score' = 0
  /\ team1Tricks' = <<>>
  /\ team2Tricks' = <<>>
  /\ trumpAskedBy' = null
  /\ trumpPlayedAfterAsk' = FALSE
  /\ trickCompletedAt' = null
  /\ nextPlayer' = null
  /\ dealerPosition' = (dealerPosition + 1) % 4
  /\ gameState' = [p \in Players |-> IF p = playerId THEN "lobby"
                                      ELSE onValue(gameState[p], "lobby")]
  /\ UNCHANGED <<bidMade, timers>>

\* ------------------------------------------------------------- the machine
StartRound ==
  \E playerId \in Players, k \in 1..NumShuffles :
    /\ startGameOffered(playerId)
    /\ rounds < MaxRounds
    /\ startGame(k)
    /\ listeners
    /\ rounds' = rounds + 1
    /\ askPending' = null
    /\ bidSeq' = <<>>
    /\ UNCHANGED choices
    /\ UNCHANGED <<players, playerCount>>

PlaceBid ==
  \E playerId \in Players, bid \in BidInputs :
    /\ placeBidOffered(playerId)
    /\ placeBid(playerId, bid)
    /\ listeners
    /\ spendBid(bid = DefaultBid)
    /\ bidSeq' = Append(bidSeq, [playerId |-> playerId, bid |-> bid])
    /\ UNCHANGED <<rounds, askPending>>
    /\ UNCHANGED <<players, playerCount>>

SelectTrump ==
  \E playerId \in Players, card \in Deck :
    /\ selectTrumpCardOffered(playerId, card)
    /\ selectTrumpCard(playerId, card)
    /\ listeners
    /\ spend(card = lowestCard(hands[playerId]))
    /\ UNCHANGED <<rounds, askPending, bidSeq>>
    /\ UNCHANGED <<players, playerCount>>

AskTrump ==
  \E playerId \in Players :
    /\ askForTrumpOffered(playerId)
    /\ askForTrump(playerId)
    /\ listeners
    /\ spend(FALSE)
    /\ askPending' = playerId
    /\ UNCHANGED <<rounds, bidSeq>>
    /\ UNCHANGED <<players, playerCount>>

PlayCard ==
  \E playerId \in Players, card \in Deck :
    /\ playCardOffered(playerId, card)
    /\ playCard(playerId, card)
    /\ listeners
    /\ spend(trickCompletedAt = null /\ card = DefaultCard(playerId))
    /\ askPending' = (IF askPending = playerId THEN null ELSE askPending)
    /\ UNCHANGED <<rounds, bidSeq>>
    /\ UNCHANGED <<players, playerCount>>

ClearTrick ==
  \E timer \in timers :
    /\ clearTrick(timer)
    /\ listeners
    /\ UNCHANGED <<choices, rounds, askPending, bidSeq>>
    /\ UNCHANGED <<players, playerCount>>

TimePasses ==
  Tick /\ UNCHANGED <<choices, rounds, askPending, bidSeq, gameState, players, playerCount>>

\* The host's "Play Again" is the default line; another player's costs a
\* decision.
ResetRound ==
  \E playerId \in Players :
    /\ resetGameOffered(playerId)
    /\ resetGame(playerId)
    /\ spend(isHost(playerId))
    /\ askPending' = null
    /\ bidSeq' = <<>>
    /\ UNCHANGED rounds
    /\ UNCHANGED <<players, playerCount>>

Next ==
  \/ StartRound
  \/ PlaceBid
  \/ SelectTrump
  \/ AskTrump
  \/ PlayCard
  \/ ClearTrick
  \/ TimePasses
  \/ ResetRound

Spec == Init /\ [][Next]_vars


\* ================================================================== claims
leadSuitOfTrick == currentTrick[1].card.suit
holdsSuit(playerId, suit) == \E c \in hands[playerId] : c.suit = suit
awaitingPlay ==
  phase = "playing" /\ Len(tricks) < 8 /\ trickCompletedAt = null /\ Len(currentTrick) < 4
RoundBoundary == ResetRound \/ StartRound

\* C1 (as claimed): in every Playing state with fewer than 8 archived tricks and
\* no trick awaiting its clear, the player whose turn it is holds at least one
\* card that playCard accepts, so play can always go on towards gameOver.
C1_PlayNeverStuck ==
  awaitingPlay => \E card \in hands[currentPlayer] : playCardAccepts(currentPlayer, card)

placesOf(card) ==
  LET shown == IF Len(tricks) > 0 /\ currentTrick = tricks[Len(tricks)]
                 THEN <<>> ELSE currentTrick
  IN Cardinality({p \in Players : card \in hands[p]})
     + Cardinality({p \in Players : card \in remainingCards[p]})
     + Cardinality({i \in DOMAIN shown : shown[i].card = card})
     + Cardinality({<<t, i>> \in (DOMAIN tricks) \X (1..4) :
                      i <= Len(tricks[t]) /\ tricks[t][i].card = card})

C3_EveryCardInOnePlace ==
  phase # "lobby" => \A card \in Deck : placesOf(card) = 1

\* C4: playCard rejects an off-suit card from any player who holds the lead
\* suit once the trick has a first play, the bid winner's designated trump card
\* included, trump hidden or revealed (under either revision of canPlayCard).
C4_MustFollowLeadSuit ==
  (phase = "playing" /\ Len(currentTrick) >= 1) =>
    \A playerId \in Players :
      holdsSuit(playerId, leadSuitOfTrick) =>
        \A card \in Deck :
          card.suit # leadSuitOfTrick
            => /\ ~playCardAccepts(playerId, card)
               /\ ~canPlayCardGameLogic(card, hands[playerId], currentTrick, trumpCard,
                                        trumpRevealed, bidWinner = playerId)

\* The bid winner is next to play, holds the lead suit and holds the designated
\* trump card, which is of another suit.
C4_Witness ==
  /\ phase = "playing"
  /\ Len(currentTrick) \in 1..3
  /\ currentPlayer = bidWinner
  /\ trickCompletedAt = null
  /\ holdsSuit(bidWinner, leadSuitOfTrick)
  /\ trumpCard \in hands[bidWinner]
  /\ trumpCard.suit # leadSuitOfTrick
  /\ ~trumpRevealed

\* C5 (as claimed): while trump is hidden, the bid winner's lead of a trump-suit
\* card is rejected unless the whole hand is of the trump suit; once trump is
\* revealed, playCard accepts every card of the bid winner's hand as a lead.
bidWinnerLeads ==
  /\ phase = "playing" /\ Len(currentTrick) = 0 /\ Len(tricks) < 8
  /\ bidWinner # null /\ currentPlayer = bidWinner /\ trickCompletedAt = null

C5_HiddenTrumpLead ==
  bidWinnerLeads =>
    \A card \in hands[bidWinner] :
      /\ (/\ ~trumpRevealed
          /\ card.suit = trumpCard.suit
          /\ \E c \in hands[bidWinner] : c.suit # trumpCard.suit)
         => ~playCardAccepts(bidWinner, card)
      /\ trumpRevealed => playCardAccepts(bidWinner, card)

\* The parts of C5 that hold: the lead rule while trump is hidden, and that
\* the lead rule itself (canPlayCard) restricts nothing once trump is revealed.
C5_LeadRuleAlone ==
  bidWinnerLeads =>
    \A card \in hands[bidWinner] :
      /\ (/\ ~trumpRevealed
          /\ card.suit = trumpCard.suit
          /\ \E c \in hands[bidWinner] : c.suit # trumpCard.suit)
         => ~playCardAccepts(bidWinner, card)
      /\ trumpRevealed
         => canPlayCard(card, hands[bidWinner], currentTrick, trumpCard,
                        trumpRevealed, TRUE)

\* The bid winner leads while trump is hidden, holding trump-suit cards and
\* others.
C5_Witness ==
  /\ phase = "playing"
  /\ Len(currentTrick) = 0
  /\ Len(tricks) >= 1
  /\ currentPlayer = bidWinner
  /\ ~trumpRevealed
  /\ holdsSuit(bidWinner, trumpCard.suit)
  /\ \E c \in hands[bidWinner] : c.suit # trumpCard.suit

\* C6: askForTrump is accepted exactly when a trump card is selected and still
\* hidden, the trick has a first play and the asker holds no card of the lead
\* suit; an accepted ask sets trumpRevealed and trumpAskedBy and leaves the
\* hands, the trick, the turn and the archive as they were.
C6_AskAcceptedWhen ==
  \A playerId \in Players :
    askForTrumpAccepts(playerId) <=>
      (/\ trumpCard # NoCard
       /\ ~trumpRevealed
       /\ Len(currentTrick) >= 1
       /\ ~holdsSuit(playerId, leadSuitOfTrick))

C6_AskForTrump ==
  /\ []C6_AskAcceptedWhen
  /\ [][(askPending' # askPending /\ askPending' # null)
         => /\ askForTrumpAccepts(askPending')
            /\ trumpRevealed'
            /\ trumpAskedBy' = askPending'
            /\ UNCHANGED <<hands, remainingCards, currentTrick, currentPlayer,
                           tricks, team1Tricks, team2Tricks, trumpCard, phase,
                           bidWinner, highestBid, trickCompletedAt>>]_vars

C6_Witness ==
  /\ trumpRevealed
  /\ trumpAskedBy # null
  /\ askPending = trumpAskedBy
  /\ Len(currentTrick) >= 1

C8_NoObligationAtTrickStart ==
  (phase = "playing" /\ Len(currentTrick) = 0) =>
    \A playerId \in Players : ~mustPlayTrumpSuit(playerId)

\* C9: within a round trumpRevealed is never set back to false: only
\* resetGame or startGame takes it from true to false.
C9_RevealNeverReverts ==
  [][(trumpRevealed /\ ~trumpRevealed') => RoundBoundary]_vars

C9_Witness ==
  trumpRevealed /\ phase = "playing" /\ Len(tricks) >= 2 /\ Len(currentTrick) = 0

\* C10: once trumpCard is set, selectTrumpCard is rejected for everyone, and
\* trumpCard keeps its value until resetGame or startGame.
C10_TrumpSelectedOnce ==
  /\ [](trumpCard # NoCard => \A playerId \in Players : ~selectTrumpCardAccepts(playerId))
  /\ [][(trumpCard # NoCard /\ trumpCard' # trumpCard) => RoundBoundary]_vars

C10_Witness ==
  trumpCard # NoCard /\ phase = "playing" /\ bidWinner # null /\ Len(tricks) >= 1

\* C11 (as claimed): selectTrumpCard(card) is accepted only from the bid winner
\* and only for a card that is in the bid winner's hand.  (The handler's tests
\* do not read the card.)
C11_SelectTrumpOwnCard ==
  \A playerId \in Players, card \in Deck :
    selectTrumpCardAccepts(playerId)
      => (bidWinner = playerId /\ card \in hands[playerId])

\* The part of C11 that holds: every selection made on the trump selection
\* screen tags a card of the bid winner's hand, and the card stays in that hand.
C11_TagStaysInHand ==
  [][(trumpCard' # trumpCard /\ trumpCard' # NoCard)
       => /\ bidWinner # null
          /\ trumpCard' \in hands[bidWinner]
          /\ trumpCard' \in hands'[bidWinner]]_vars

\* C12: calculateBidValidity(amount, highestBid) is true exactly when
\* 14 <= amount <= 28 and (highestBid is unset or amount > highestBid), for every
\* amount and highestBid; placeBid rejects every numeric amount for which it is
\* false.  Evaluated in every state of the bidding phase.
Amounts == 1..(MAX_BID + 2)
HighestBids == 0..(MAX_BID + 2)

C12_BidValidity ==
  phase = "bidding" =>
    /\ \A amount \in Amounts, highest \in HighestBids :
         calculateBidValidity(amount, highest)
           <=> (14 <= amount /\ amount <= 28 /\ (highest = 0 \/ amount > highest))
    /\ calculateBidValidity(20, 19)
    /\ ~calculateBidValidity(13, 0)
    /\ ~calculateBidValidity(20, 20)
    /\ \A playerId \in Players, amount \in Amounts :
         ~calculateBidValidity(amount, highestBid) => ~placeBidAccepts(playerId, amount)

\* A bid stands, and the bidder whose turn it is has amounts that are refused
\* for being too low and amounts that are accepted.
C12_Witness ==
  /\ phase = "bidding"
  /\ highestBid > MIN_BID
  /\ placeBidAccepts(currentBidder, MAX_BID)
  /\ ~placeBidAccepts(currentBidder, highestBid)
  /\ ~placeBidAccepts(currentBidder, MIN_BID)

\* C13 (as claimed): while bidding, a numeric bid of a player of the bid
\* winner's team is accepted only if an opposing player placed a numeric bid
\* later in submission order than the bid winner's winning bid; a player of the
\* opposing team is never refused by the team rule.
teamOf(playerId) == playerId % 2

winningBidIndex ==
  LET hits == {i \in DOMAIN bidSeq :
                 bidSeq[i].playerId = bidWinner /\ bidSeq[i].bid = highestBid}
  IN IF hits = {} THEN 0 ELSE CHOOSE i \in hits : \A j \in hits : j <= i

opponentBidLater ==
  \E i \in DOMAIN bidSeq :
    /\ i > winningBidIndex
    /\ bidSeq[i].bid # PASS
    /\ teamOf(bidSeq[i].playerId) # teamOf(bidWinner)

C13_TeamRestriction ==
  (phase = "bidding" /\ bidWinner # null) =>
    \A playerId \in Players :
      /\ teamOf(playerId) = teamOf(bidWinner)
         => \A amount \in Amounts :
              placeBidAccepts(playerId, amount) => opponentBidLater
      /\ teamOf(playerId) # teamOf(bidWinner)
         => canPlayerBid(playerId, bids, bidWinner, highestBid)

\* The part of C13 that holds: the bid winner's partner is refused while no
\* opposing player holds a numeric entry in the bids log, and an opposing
\* player is never refused by the team rule.
C13_PartnerRefused ==
  (phase = "bidding" /\ bidWinner # null) =>
    \A playerId \in Players :
      /\ (/\ teamOf(playerId) = teamOf(bidWinner)
          /\ \A i \in DOMAIN bids :
               teamOf(bids[i].playerId) # teamOf(bidWinner) => bids[i].bid = PASS)
         => \A amount \in Amounts : ~placeBidAccepts(playerId, amount)
      /\ teamOf(playerId) # teamOf(bidWinner)
         => canPlayerBid(playerId, bids, bidWinner, highestBid)

\* The bid winner's partner is to bid, and the amount is in range.
C13_Witness ==
  /\ phase = "bidding"
  /\ bidWinner # null
  /\ currentBidder # bidWinner
  /\ teamOf(currentBidder) = teamOf(bidWinner)
  /\ highestBid < MAX_BID

\* C14: across the accepted bids of a round highestBid never decreases, and
\* whenever a bid winner exists highestBid is in 14..28.
C14_HighestBidMonotone ==
  /\ [](bidWinner # null => highestBid \in 14..28)
  /\ [][(bidSeq' # bidSeq /\ bidSeq' # <<>>) => highestBid' >= highestBid]_vars

\* A bid has been raised, and passes have followed.
C14_Witness ==
  /\ bidWinner # null
  /\ highestBid > MIN_BID
  /\ \E i \in DOMAIN bidSeq : bidSeq[i].bid # PASS /\ bidSeq[i].bid < highestBid
  /\ bidSeq[Len(bidSeq)].bid = PASS

\* C15: whenever bidWinner is set, the bids log holds a numeric entry for the
\* bid winner, equal to highestBid.
C15_WinnerEntryIsHighestBid ==
  bidWinner # null =>
    /\ \E i \in DOMAIN bids : bids[i].playerId = bidWinner
    /\ \A i \in DOMAIN bids :
         bids[i].playerId = bidWinner
           => (bids[i].bid # PASS /\ bids[i].bid = highestBid)

\* The bid winner's entry has replaced an earlier entry of the same player, and
\* the round has gone on to play.
C15_Witness ==
  /\ bidWinner # null
  /\ phase = "playing"
  /\ \E i \in DOMAIN bidSeq :
       bidSeq[i].playerId = bidWinner /\ bidSeq[i].bid # highestBid

\* C16: an accepted pass that is the third pass in a row while a bid winner
\* exists moves the phase to trumpSelection and leaves bidWinner and highestBid;
\* every other accepted pass leaves the phase bidding and moves currentBidder to
\* the next seat; an accepted numeric bid sets the pass count to 0.
RECURSIVE trailingPasses(_)
trailingPasses(seq) ==
  IF seq = <<>> \/ seq[Len(seq)].bid # PASS THEN 0
  ELSE 1 + trailingPasses(SubSeq(seq, 1, Len(seq) - 1))

C16_PassTransitions ==
  [][(bidSeq' # bidSeq /\ bidSeq' # <<>>)
       => IF bidSeq'[Len(bidSeq')].bid = PASS
            THEN /\ bidWinner' = bidWinner
                 /\ highestBid' = highestBid
                 /\ IF trailingPasses(bidSeq') = 3 /\ bidWinner # null
                      THEN phase' = "trumpSelection"
                      ELSE /\ phase' = "bidding"
                           /\ currentBidder' = (currentBidder + 1) % 4
            ELSE passCount' = 0 /\ phase' = "bidding"]_vars

\* Bidding has ended after passes before the first bid, a raise and three
\* passes in a row.
C16_Witness ==
  /\ phase = "trumpSelection"
  /\ trailingPasses(bidSeq) = 3
  /\ bidSeq[1].bid = PASS
  /\ \E i \in DOMAIN bidSeq : bidSeq[i].bid # PASS /\ bidSeq[i].bid < highestBid

\* C17: the phase changes only along lobby -> bidding -> trumpSelection ->
\* playing -> gameOver -> lobby, and the round leaves bidding only by a pass that
\* is the third in a row.
phaseAfter(p) ==
  CASE p = "lobby" -> "bidding"
    [] p = "bidding" -> "trumpSelection"
    [] p = "trumpSelection" -> "playing"
    [] p = "playing" -> "gameOver"
    [] p = "gameOver" -> "lobby"

C18_OutOfPhaseRejected ==
  /\ phase # "lobby" => ~startGameAccepts
  /\ phase # "bidding"
     => \A playerId \in Players, bid \in BidInputs : ~placeBidAccepts(playerId, bid)
  /\ phase # "trumpSelection"
     => \A playerId \in Players : ~selectTrumpCardAccepts(playerId)
  /\ phase # "playing"
     => \A playerId \in Players :
          /\ ~askForTrumpAccepts(playerId)
          /\ \A card \in Deck : ~playCardAccepts(playerId, card)

\* C19: placeBid (a number or a pass) from a player who is not currentBidder
\* and playCard from a player who is not currentPlayer are rejected.
C19_OutOfTurnRejected ==
  \A playerId \in Players :
    /\ playerId # currentBidder
       => \A bid \in {PASS} \cup Amounts : ~placeBidAccepts(playerId, bid)
    /\ playerId # currentPlayer
       => \A card \in Deck : ~playCardAccepts(playerId, card)

\* A trick is in progress and a player whose turn it is not holds a card that
\* passes every other test of playCard.
C19_Witness ==
  /\ phase = "playing"
  /\ Len(currentTrick) \in 1..3
  /\ trickCompletedAt = null
  /\ \E playerId \in Players :
       /\ playerId # currentPlayer
       /\ \E card \in hands[playerId] : playCardAcceptsAnyTurn(playerId, card)

\* C20 (as claimed): playCard is rejected for a card that is not in the acting
\* player's hand.
C20_CardNotInHandRejected ==
  \A playerId \in Players, card \in Deck :
    playCardAccepts(playerId, card) => card \in hands[playerId]

\* The part of C20 that holds: a play made from the screen takes exactly the
\* played card out of the acting player's hand and leaves the other hands.
C20_PlayRemovesOnlyThatCard ==
  [][Len(currentTrick') = Len(currentTrick) + 1
       => LET play == currentTrick'[Len(currentTrick')]
          IN /\ play.card \in hands[play.playerId]
             /\ hands' = [hands EXCEPT ![play.playerId] = @ \ {play.card}]]_vars


\* C21 (as claimed): from the moment a trick reaches 4 plays until its
\* scheduled clear has been applied (trickCompletedAt is set until then), no
\* step but that clear changes currentTrick, the hands or trumpAskedBy: every
\* play and every ask for trump is refused during the display window.
awaitingClear ==
  phase = "playing" /\ Len(currentTrick) >= 4 /\ trickCompletedAt # null

C21_DisplayWindowFrozen ==
  [][awaitingClear =>
       \/ currentTrick' = <<>>
       \/ /\ currentTrick' = currentTrick
          /\ hands' = hands
          /\ trumpAskedBy' = trumpAskedBy]_vars

\* What the code does keep: during the first 5000 ms after the fourth play
\* (trickDisplaying) neither a play nor an ask is taken.
C21_FrozenWhileDisplaying ==
  [][trickDisplaying =>
       /\ currentTrick' = currentTrick
       /\ hands' = hands
       /\ trumpAskedBy' = trumpAskedBy]_vars


\* C22 (as claimed): in every reachable state currentTrick holds between 0 and
\* 4 plays and every archived trick has exactly 4 plays.
C22_TrickHolds0to4 ==
  /\ Len(currentTrick) \in 0..4
  /\ \A t \in DOMAIN tricks : Len(tricks[t]) = 4

\* What the code does keep: a trick is appended to tricks exactly by the play
\* that is the fourth of currentTrick, with 4 plays, and no trick is archived
\* twice.
C22_ArchivedAtFourthPlay ==
  [][/\ (Len(currentTrick) = 3 /\ Len(currentTrick') = 4)
          <=> tricks' = Append(tricks, currentTrick')
     /\ \A t \in DOMAIN tricks' : Len(tricks'[t]) = 4
     /\ \A t, u \in DOMAIN tricks' : t # u => tricks'[t] # tricks'[u]
     /\ (tricks' = tricks \/ tricks' = <<>> \/ tricks' = Append(tricks, currentTrick'))]_vars


\* C23: the number of archived tricks is always between 0 and 8, and the phase
\* is gameOver exactly when 8 tricks have been archived: the play that archives
\* the 8th trick sets gameOver, and no state with fewer than 8 is in gameOver.
C23_GameOverAtEightTricks ==
  /\ Len(tricks) \in 0..8
  /\ phase = "gameOver" <=> Len(tricks) = 8

C23_Witness ==
  phase = "gameOver" /\ Len(tricks) = 8 /\ currentTrick = tricks[8]


\* C24: during Playing currentPlayer is a seat in 0..3; an accepted play that
\* is not the 4th of its trick moves currentPlayer to (currentPlayer + 1) mod 4;
\* the clear of a 4-play trick hands the turn to the seat of the play that
\* getTrickWinner selected for that trick, and that seat leads the next trick.
winnerSeat(trick) ==
  trick[getTrickWinner(trick, trick[1].card.suit, trumpCard)].playerId

C24_TurnOrder ==
  [][/\ phase' = "playing" => currentPlayer' \in 0..3
     /\ (phase = "playing" /\ Len(currentTrick') = Len(currentTrick) + 1
           /\ Len(currentTrick') # 4)
          => currentPlayer' = (currentPlayer + 1) % 4
     /\ (phase = "playing" /\ Len(currentTrick) >= 4 /\ currentTrick' = <<>>
           /\ phase' = "playing")
          => currentPlayer' = winnerSeat(tricks[Len(tricks)])
     /\ (phase = "playing" /\ currentTrick = <<>> /\ Len(currentTrick') = 1
           /\ Len(tricks) >= 1)
          => currentTrick'[1].playerId = winnerSeat(tricks[Len(tricks)])]_vars

\* A second trick led by the winner of the first, who is not the seat after
\* the fourth player.
C24_Witness ==
  /\ phase = "playing"
  /\ Len(tricks) >= 1
  /\ Len(currentTrick) = 1
  /\ currentTrick[1].playerId = winnerSeat(tricks[Len(tricks)])
  /\ currentTrick[1].playerId # (tricks[Len(tricks)][4].playerId + 1) % 4


\* C25 (as claimed): a reset or a new start cancels every scheduled trick-clear,
\* so that none is applied afterwards on behalf of the previous round: in no
\* state can resetGame or startGame, which test neither the phase nor the
\* pending timers, write the room record and leave a trick-clear scheduled.
C25_ResetCancelsScheduledClear ==
  /\ ~ENABLED (/\ resetGame(0)
               /\ timers' # {}
               /\ UNCHANGED <<askPending, bidSeq, choices, rounds, players,
                               playerCount>>)
  /\ ~ENABLED (/\ startGame(1)
               /\ listeners
               /\ timers' # {}
               /\ UNCHANGED <<askPending, bidSeq, choices, rounds, players,
                               playerCount>>)

\* Through the screens no clear is pending when a round is reset or started:
\* "Play Again" and "Start Game" are shown in phases gameOver and lobby only,
\* and the eighth trick cannot complete before the seventh has been cleared.
C25_NoClearPendingBetweenRounds ==
  phase \in {"gameOver", "lobby", "bidding", "trumpSelection"} => timers = {}


\* C26 (as claimed): the dealer and the first bidder rotate by one seat per
\* round: the n-th round of a room (the first dealt by seat 0) is dealt by seat
\* (n - 1) mod 4 and its first bid comes from seat n mod 4.
C26_DealerRotatesPerRound ==
  phase # "lobby" =>
    /\ dealerPosition = (rounds - 1) % 4
    /\ bidSeq # <<>> => bidSeq[1].playerId = rounds % 4

\* What the code does keep: each reset advances dealerPosition by one seat and
\* writes phase lobby, and each start makes the seat after the dealer the first
\* bidder and leaves dealerPosition.
C26_ResetAndStartSteps ==
  [][/\ ResetRound => /\ dealerPosition' = (dealerPosition + 1) % 4
                      /\ phase' = "lobby"
     /\ StartRound => /\ currentBidder' = (dealerPosition + 1) % 4
                      /\ dealerPosition' = dealerPosition
                      /\ phase' = "bidding"]_vars


\* C27: at gameOver, bidMade is true if and only if the final point total of
\* the bid winner's team (seat mod 2) is at least highestBid.  The total is
\* counted from the archived tricks: the points of the tricks whose winning
\* play came from a seat of that team.
RECURSIVE pointsWonBy(_, _)
pointsWonBy(team, ts) ==
  IF ts = <<>> THEN 0
  ELSE (IF winnerSeat(Head(ts)) % 2 = team THEN trickPointsOf(Head(ts)) ELSE 0)
       + pointsWonBy(team, Tail(ts))

C27_BidMadeIffTeamReachedBid ==
  phase = "gameOver" =>
    (bidMade <=> pointsWonBy(bidWinner % 2, tricks) >= highestBid)

\* A round whose bidding team scored exactly its bid.
C27_Witness ==
  /\ phase = "gameOver"
  /\ bidMade
  /\ pointsWonBy(bidWinner % 2, tricks) = highestBid


\* ------------------------------------------- getTrickWinner on arbitrary tricks
\* The resolution of a trick as playCard makes it, applied to every trick of 4
\* distinct cards of a pool and every trump suit (or none), whether or not the
\* rules of play let that trick arise.
TrickRanks == <<"K", "J", "A", "7", "10", "Q", "9", "8">>
TrickCards ==
  {c \in Deck : \E i \in 1..MaxTrickRanks : i <= Len(TrickRanks) /\ c.rank = TrickRanks[i]}
TrumpCards == {NoCard} \cup {[suit |-> SUITS[i], rank |-> "7"] : i \in DOMAIN SUITS}

InitTrick ==
  /\ phase = "playing"
  /\ hands = NoHands
  /\ remainingCards = NoHands
  /\ currentBidder = null
  /\ highestBid = MIN_BID
  /\ bidWinner = 0
  /\ bids = <<>>
  /\ passCount = 0
  /\ trumpCard \in TrumpCards
  /\ trumpRevealed = FALSE
  /\ trumpAskedBy = null
  /\ trumpPlayedAfterAsk = FALSE
  /\ \E a, b, c, d \in TrickCards :
       /\ Cardinality({a, b, c, d}) = 4
       /\ currentTrick = [i \in 1..4 |->
                            [playerId |-> i - 1,
                             card |-> <<a, b, c, d>>[i],
                             position |-> i - 1]]
  /\ tricks = <<>>
  /\ team1Tricks = <<>>
  /\ team2Tricks = <<>>
  /\ currentPlayer = 3
  /\ nextPlayer = null
  /\ team1Score = 0
  /\ team2Score = 0
  /\ bidMade = FALSE
  /\ trickCompletedAt = null
  /\ dealerPosition = 3
  /\ timers = {}
  /\ askPending = null
  /\ bidSeq = <<>>
  /\ gameState = [p \in Players |-> "playing"]
  /\ players = [p \in Players |-> p]
  /\ playerCount = [p \in Players |-> null]
  /\ choices = 0
  /\ rounds = 1

\* playCard's resolution of the complete trick: the winner's seat is written
\* to nextPlayer and the trick is archived.
ResolveTrick ==
  LET leadSuit == currentTrick[1].card.suit
      winnerIndex == getTrickWinner(currentTrick, leadSuit, trumpCard)
      winnerPosition == currentTrick[winnerIndex].playerId
  IN /\ Len(currentTrick) = 4
     /\ tricks = <<>>
     /\ tricks' = Append(tricks, currentTrick)
     /\ nextPlayer' = winnerPosition
     /\ UNCHANGED <<phase, hands, remainingCards, currentBidder, highestBid, bidWinner,
                    bids, passCount, trumpCard, trumpRevealed, trumpAskedBy,
                    trumpPlayedAfterAsk, currentTrick, team1Tricks, team2Tricks,
                    currentPlayer, team1Score, team2Score, bidMade, trickCompletedAt,
                    dealerPosition, timers, askPending, bidSeq, gameState, players,
                    playerCount, choices, rounds>>

NextTrick == ResolveTrick

SpecTrick == InitTrick /\ [][NextTrick]_vars

\* C28: for every complete 4-play trick and trump suit, getTrickWinner returns
\* the index of the play with the highest ranked value (trump suit 1000 +
\* trickValue, lead suit 100 + trickValue, any other card 0), the earliest among
\* equal values; so a trump-suit play beats every other play, and a play of
\* neither the lead suit nor the trump suit never wins.
rankedValue(card, leadSuit, trumpSuit) ==
  IF card.suit = trumpSuit THEN 1000 + CARD_VALUES(card.rank)
  ELSE IF card.suit = leadSuit THEN 100 + CARD_VALUES(card.rank)
  ELSE 0

C28_TrickWinner ==
  Len(currentTrick) = 4 =>
    LET leadSuit == currentTrick[1].card.suit
        trumpSuit == IF trumpCard = NoCard THEN "none" ELSE trumpCard.suit
        v == [i \in 1..4 |-> rankedValue(currentTrick[i].card, leadSuit, trumpSuit)]
        w == getTrickWinner(currentTrick, leadSuit, trumpCard)
    IN /\ w \in 1..4
       /\ \A i \in 1..4 : v[i] <= v[w] /\ (i < w => v[i] < v[w])
       /\ (\E i \in 1..4 : currentTrick[i].card.suit = trumpSuit)
            => currentTrick[w].card.suit = trumpSuit
       /\ currentTrick[w].card.suit \in {leadSuit, trumpSuit}
       /\ tricks # <<>> => nextPlayer = currentTrick[w].playerId

\* The trick of the example, resolved: hearts led, spades trump,
\* [hearts-K, spades-J, hearts-A, clubs-7] is won by the second play.
C28_Witness ==
  /\ tricks # <<>>
  /\ trumpCard.suit = "spades"
  /\ [i \in 1..4 |-> currentTrick[i].card]
       = << [suit |-> "hearts", rank |-> "K"], [suit |-> "spades", rank |-> "J"],
            [suit |-> "hearts", rank |-> "A"], [suit |-> "clubs", rank |-> "7"] >>
  /\ nextPlayer = 1


\* ------------------------------------------------------- the deal of a round
\* startGame on each of MaxDeals outcomes of shuffleDeck, the bidding, and the
\* merge of the two deals by selectTrumpCard.
DealRound ==
  \E playerId \in Players, k \in 1..MaxDeals :
    /\ startGameOffered(playerId)
    /\ rounds < 1
    /\ startGame(k)
    /\ listeners
    /\ rounds' = rounds + 1
    /\ askPending' = null
    /\ bidSeq' = <<>>
    /\ UNCHANGED choices
    /\ UNCHANGED <<players, playerCount>>

NextDeal ==
  \/ DealRound
  \/ PlaceBid
  \/ SelectTrump

SpecDeal == Init /\ [][NextDeal]_vars

\* C29: createDeck yields exactly 32 cards, all unique by (suit, rank); the
\* deal of 4 and 4 cards to each of the 4 players gives, once selectTrumpCard
\* has merged the two deals, four pairwise-disjoint 8-card hands whose union is
\* the whole deck.
C29_DealPartitionsDeck ==
  /\ Len(createDeck) = 32
  /\ \A i, j \in DOMAIN createDeck : i # j => createDeck[i] # createDeck[j]
  /\ phase \in {"bidding", "trumpSelection"} =>
       /\ \A p \in Players :
            /\ Cardinality(hands[p]) = 4
            /\ Cardinality(remainingCards[p]) = 4
            /\ hands[p] \cap remainingCards[p] = {}
       /\ \A p, q \in Players :
            p # q => (hands[p] \cup remainingCards[p])
                       \cap (hands[q] \cup remainingCards[q]) = {}
       /\ UNION {hands[p] \cup remainingCards[p] : p \in Players} = Deck
  /\ (phase = "playing" /\ tricks = <<>> /\ currentTrick = <<>>) =>
       /\ \A p \in Players : Cardinality(hands[p]) = 8
       /\ \A p, q \in Players : p # q => hands[p] \cap hands[q] = {}
       /\ UNION {hands[p] : p \in Players} = Deck

\* The merged hands of a deal that is not one of the two written-out ones.
C29_Witness ==
  /\ phase = "playing"
  /\ tricks = <<>>
  /\ currentTrick = <<>>
  /\ \A p \in Players : Cardinality(hands[p]) = 8
  /\ \A k \in 1..Len(Shuffles) :
       hands[0] # {shuffleDeck(createDeck, k)[i] : i \in (1..4) \cup (17..20)}


\* C30 (as claimed): whether an action is accepted is a function of the room
\* record and the action alone, independent of the wall-clock time of arrival:
\* a step in which only time passes (the record keeps the trickCompletedAt it
\* holds) changes the decision of no play.
C30_DecisionIndependentOfTime ==
  [][TimePasses =>
       \A playerId \in Players, card \in Deck :
         playCardAccepts(playerId, card)' <=> playCardAccepts(playerId, card)]_vars

\* The decisions of the other handlers do not read the clock.
C30_OtherDecisionsIndependentOfTime ==
  [][TimePasses =>
       \A playerId \in Players :
         /\ askForTrumpAccepts(playerId)' <=> askForTrumpAccepts(playerId)
         /\ selectTrumpCardAccepts(playerId)' <=> selectTrumpCardAccepts(playerId)
         /\ \A bid \in BidInputs :
              placeBidAccepts(playerId, bid)' <=> placeBidAccepts(playerId, bid)]_vars


\* C31 (as claimed): in a complete trick of 4 distinct cards no two plays share
\* the highest ranked value, so the earliest-play rule never decides the winner
\* of a legally played trick.
topPlays(trick) ==
  LET leadSuit == trick[1].card.suit
      trumpSuit == IF trumpCard = NoCard THEN "none" ELSE trumpCard.suit
      v == [i \in 1..4 |-> rankedValue(trick[i].card, leadSuit, trumpSuit)]
  IN {i \in 1..4 : \A j \in 1..4 : v[j] <= v[i]}

C31_NoTieAmongTopPlays ==
  \A t \in DOMAIN tricks :
    Len(tricks[t]) = 4 => Cardinality(topPlays(tricks[t])) = 1


\* C32: every archived trick is credited to exactly one team, the team (seat
\* mod 2) of the play getTrickWinner selected for it: team1Tricks and
\* team2Tricks are disjoint, together hold exactly the archived tricks, and each
\* team's running points are the points of the cards in the tricks it won.
tricksOf(ts) == {ts[i] : i \in DOMAIN ts}

C32_TricksCreditedToWinnersTeam ==
  /\ tricksOf(team1Tricks) \cap tricksOf(team2Tricks) = {}
  /\ tricksOf(team1Tricks) \cup tricksOf(team2Tricks) = tricksOf(tricks)
  /\ Len(team1Tricks) + Len(team2Tricks) = Len(tricks)
  /\ \A i \in DOMAIN team1Tricks : winnerSeat(team1Tricks[i]) % 2 = 0
  /\ \A i \in DOMAIN team2Tricks : winnerSeat(team2Tricks[i]) % 2 = 1
  /\ getTotalPoints(team1Tricks) = pointsWonBy(0, tricks)
  /\ getTotalPoints(team2Tricks) = pointsWonBy(1, tricks)
  /\ phase = "gameOver" => /\ team1Score = pointsWonBy(0, tricks)
                           /\ team2Score = pointsWonBy(1, tricks)

\* Both teams have won tricks, one of them won by a seat of the other team than
\* the seat that played last.
C32_Witness ==
  /\ team1Tricks # <<>>
  /\ team2Tricks # <<>>
  /\ \E i \in DOMAIN tricks :
       /\ winnerSeat(tricks[i]) % 2 # tricks[i][4].playerId % 2
       /\ trickPointsOf(tricks[i]) > 0


\* ------------------------------------------------------ the bidding of a round
\* One deal, then every bid the current bidder can submit, as long as the
\* bidding lasts.
FreeBids == {PASS} \cup MIN_BID..(MIN_BID + MaxBidAmounts - 1)

StartBidding ==
  \E playerId \in Players :
    /\ startGameOffered(playerId)
    /\ rounds < 1
    /\ startGame(1)
    /\ listeners
    /\ rounds' = rounds + 1
    /\ askPending' = null
    /\ UNCHANGED <<bidSeq, choices>>
    /\ UNCHANGED <<players, playerCount>>

BidFreely ==
  \E playerId \in Players, bid \in FreeBids :
    /\ placeBidOffered(playerId)
    /\ (bid = PASS /\ bidWinner = null) => passCount < MaxOpeningPasses
    /\ placeBid(playerId, bid)
    /\ listeners
    /\ UNCHANGED <<askPending, bidSeq, choices, rounds>>
    /\ UNCHANGED <<players, playerCount>>

NextBidding ==
  \/ StartBidding
  \/ BidFreely

SpecBidding == Init /\ [][NextBidding]_vars

\* C33: once a numeric bid has been accepted, the bidding ends after a bounded
\* number of further accepted bids and passes: every accepted bid or pass made
\* while there is a bid winner either ends the bidding or strictly lowers a
\* measure that is never negative (three units for each amount left up to
\* MAX_BID, one for each pass left before the third), and the bid winner stays.
biddingMeasure == 3 * (MAX_BID - highestBid) + (2 - passCount)

C33_BiddingEnds ==
  [][(phase = "bidding" /\ bidWinner # null) =>
       \/ phase' = "trumpSelection" /\ bidWinner' = bidWinner
       \/ /\ phase' = "bidding"
          /\ bidWinner' # null
          /\ biddingMeasure' < biddingMeasure
          /\ biddingMeasure' >= 0]_vars

\* Without a numeric bid the bidding goes on: a bidding state in which every
\* player has passed more than twice.
C33_OnlyPassesSoFar ==
  phase = "bidding" /\ bidWinner = null /\ passCount > 2 * Cardinality(Players)

\* The bidding ended at the highest amount after bids by both teams.
C33_Witness ==
  /\ phase = "trumpSelection"
  /\ highestBid = MAX_BID
  /\ passCount = 3
  /\ \E i, j \in DOMAIN bids : bids[i].playerId % 2 # bids[j].playerId % 2

\* ---------------------------------------------------------------- the lobby
\* One room, from before createRoom until startGame.  A joinRoom is two steps:
\* the snapshot callback of onValue(..., {onlyOnce: true}) reads the room and
\* counts its players, and its set(playerRef, ...) reaches the room later;
\* other clients' reads and writes come in between.
InitLobby ==
  /\ phase = "none"
  /\ hands = NoHands
  /\ remainingCards = NoHands
  /\ currentBidder = null
  /\ highestBid = 0
  /\ bidWinner = null
  /\ bids = <<>>
  /\ passCount = 0
  /\ trumpCard = NoCard
  /\ trumpRevealed = FALSE
  /\ trumpAskedBy = null
  /\ trumpPlayedAfterAsk = FALSE
  /\ currentTrick = <<>>
  /\ tricks = <<>>
  /\ team1Tricks = <<>>
  /\ team2Tricks = <<>>
  /\ currentPlayer = null
  /\ nextPlayer = null
  /\ team1Score = 0
  /\ team2Score = 0
  /\ bidMade = FALSE
  /\ trickCompletedAt = null
  /\ dealerPosition = 0
  /\ timers = {}
  /\ askPending = null
  /\ bidSeq = <<>>
  /\ gameState = [p \in Players |-> "menu"]
  /\ players = [p \in Players |-> null]
  /\ playerCount = [p \in Players |-> null]
  /\ choices = 0
  /\ rounds = 0

\* renderMenu offers "Create Room" and "Join Room".
createRoomOffered(playerId) == gameState[playerId] = "menu"
joinRoomOffered(playerId) == gameState[playerId] = "menu"
\* "Leave Room" of renderLobby and of renderGameOver.
leaveRoomOffered(playerId) == gameState[playerId] \in {"lobby", "gameOver"}

\* createRoom writes the room under a new code: the room did not exist.
createRoom(playerId) ==
  /\ phase = "none"
  /\ phase' = "lobby"
  /\ players' = [p \in Players |-> IF p = playerId THEN 0 ELSE null]
  /\ gameState' = [gameState EXCEPT ![playerId] = "lobby"]
  /\ UNCHANGED <<hands, remainingCards, currentBidder, highestBid, bidWinner, bids,
                 passCount, trumpCard, trumpRevealed, trumpAskedBy,
                 trumpPlayedAfterAsk, currentTrick, tricks, team1Tricks, team2Tricks,
                 currentPlayer, nextPlayer, team1Score, team2Score, bidMade,
                 trickCompletedAt, dealerPosition, timers, playerCount>>

\* joinRoom, the snapshot callback: "Room not found" without data, "Room is
\* full" with 4 players, otherwise playerCount is held for the write.
joinRoomReads(playerId) ==
  /\ phase # "none"
  /\ playerCount[playerId] = null
  /\ Cardinality(seated) < 4
  /\ playerCount' = [playerCount EXCEPT ![playerId] = Cardinality(seated)]
  /\ UNCHANGED <<gameData, timers, gameState, players>>

\* joinRoom, set(playerRef, {name, position: playerCount, ready}) and the
\* client's move to the lobby screen.
joinRoomWrites(playerId) ==
  /\ playerCount[playerId] # null
  /\ players' = [players EXCEPT ![playerId] = playerCount[playerId]]
  /\ playerCount' = [playerCount EXCEPT ![playerId] = null]
  /\ gameState' = [gameState EXCEPT ![playerId] = "lobby"]
  /\ UNCHANGED <<gameData, timers>>

\* leaveRoom removes players/playerId and shows the menu.
leaveRoom(playerId) ==
  /\ players' = [players EXCEPT ![playerId] = null]
  /\ gameState' = [gameState EXCEPT ![playerId] = "menu"]
  /\ UNCHANGED <<gameData, timers, playerCount>>

CreateRoom ==
  \E playerId \in Players :
    /\ createRoomOffered(playerId)
    /\ createRoom(playerId)
    /\ UNCHANGED <<askPending, bidSeq, choices, rounds>>

JoinRoomReads ==
  \E playerId \in Players :
    /\ joinRoomOffered(playerId)
    /\ joinRoomReads(playerId)
    /\ UNCHANGED <<askPending, bidSeq, choices, rounds>>

JoinRoomWrites ==
  \E playerId \in Players :
    /\ joinRoomWrites(playerId)
    /\ UNCHANGED <<askPending, bidSeq, choices, rounds>>

LeaveRoom ==
  \E playerId \in Players :
    /\ leaveRoomOffered(playerId)
    /\ leaveRoom(playerId)
    /\ UNCHANGED <<askPending, bidSeq, choices, rounds>>

StartFromLobby ==
  \E playerId \in Players :
    /\ startGameOffered(playerId)
    /\ rounds < 1
    /\ startGame(1)
    /\ listeners
    /\ rounds' = rounds + 1
    /\ UNCHANGED <<askPending, bidSeq, choices, players, playerCount>>

NextLobby ==
  \/ CreateRoom
  \/ JoinRoomReads
  \/ JoinRoomWrites
  \/ LeaveRoom
  \/ StartFromLobby

SpecLobby == InitLobby /\ [][NextLobby]_vars

\* The positions of the players of the room.
seats == {players[p] : p \in seated}

\* C34: after any sequence of createRoom, joinRoom and leaveRoom, two joins
\* that read the same player count included, no two seated players share a
\* position; so once startGame is accepted (exactly 4 players) the seated
\* positions are exactly 0..3 and the seat named by currentBidder is occupied.
C34_SeatsDistinct ==
  /\ \A p, q \in seated : p # q => players[p] # players[q]
  /\ phase = "bidding" => seats = 0..3 /\ currentBidder \in seats

\* Two joins that read the same count hold the same position.
C34_SameCountRead ==
  \E p, q \in seated : p # q /\ players[p] = players[q] /\ phase = "lobby"

\* A round started with four players and nobody at the first bidder's seat.
C34_BidderSeatEmpty ==
  phase = "bidding" /\ Cardinality(seated) = 4 /\ currentBidder \notin seats

====
